---------------------------- MODULE Spec2Model ----------------------------
(***************************************************************************)
(* A model of git-caching-proxy's Smart HTTP v2 frontend (git_proxy.py):   *)
(* the pkt-line parser, the two request handlers, the git child processes  *)
(* they spawn and the streaming of a child's stdout to the client.         *)
(*                                                                         *)
(* A byte string is a sequence of one-character strings.                   *)
(***************************************************************************)
EXTENDS Integers, Sequences, FiniteSets, TLC

(***************************************************************************)
(* Byte-string helpers (Python bytes methods used by the source).          *)
(***************************************************************************)

\* bytes.startswith(prefix)
startswith(b, prefix) ==
    /\ Len(b) >= Len(prefix)
    /\ SubSeq(b, 1, Len(prefix)) = prefix

\* bytes.removeprefix(prefix)
removeprefix(b, prefix) ==
    IF startswith(b, prefix) THEN SubSeq(b, Len(prefix) + 1, Len(b)) ELSE b

\* The bytes that bytes.rstrip() / bytes.strip() with no argument remove.
Whitespace == {" ", "\t", "\n", "\r", "\f"}

RECURSIVE rstrip_chars(_, _)
\* bytes.rstrip(chars): drop the trailing bytes that are in chars.
rstrip_chars(b, chars) ==
    IF b # << >> /\ b[Len(b)] \in chars
    THEN rstrip_chars(SubSeq(b, 1, Len(b) - 1), chars)
    ELSE b

RECURSIVE lstrip_chars(_, _)
lstrip_chars(b, chars) ==
    IF b # << >> /\ b[1] \in chars
    THEN lstrip_chars(Tail(b), chars)
    ELSE b

RECURSIVE join(_, _)
\* sep.join(parts)
join(sep, parts) ==
    IF parts = << >> THEN << >>
    ELSE IF Len(parts) = 1 THEN parts[1]
    ELSE parts[1] \o sep \o join(sep, Tail(parts))

(***************************************************************************)
(* int(pkt_length_prefix, 16) as CPython computes it on a bytes object:    *)
(* surrounding whitespace is stripped, one sign and one 0x/0X prefix are   *)
(* accepted, single underscores may separate digits (and may follow the    *)
(* 0x prefix), upper- and lower-case digits are accepted; anything else    *)
(* raises ValueError.                                                      *)
(***************************************************************************)
HexLower == <<"0","1","2","3","4","5","6","7","8","9","a","b","c","d","e","f">>
HexUpper == <<"0","1","2","3","4","5","6","7","8","9","A","B","C","D","E","F">>

IsHexDigit(c) == \E i \in 1..16 : HexLower[i] = c \/ HexUpper[i] = c

HexDigitValue(c) == (CHOOSE i \in 1..16 : HexLower[i] = c \/ HexUpper[i] = c) - 1

RECURSIVE HexDigitsValue(_, _)
\* The value of a string of hex digits and underscores, acc being the value so far.
HexDigitsValue(ds, acc) ==
    IF ds = << >> THEN acc
    ELSE IF ds[1] = "_" THEN HexDigitsValue(Tail(ds), acc)
    ELSE HexDigitsValue(Tail(ds), acc * 16 + HexDigitValue(ds[1]))

\* Digits with single underscores between them: non-empty, no leading,
\* trailing or doubled underscore, nothing but hex digits and underscores.
WellFormedDigits(ds) ==
    /\ ds # << >>
    /\ \A i \in 1..Len(ds) : IsHexDigit(ds[i]) \/ ds[i] = "_"
    /\ ds[1] # "_"
    /\ ds[Len(ds)] # "_"
    /\ \A i \in 1..(Len(ds) - 1) : ~(ds[i] = "_" /\ ds[i + 1] = "_")

int16(s) ==
    LET stripped == rstrip_chars(lstrip_chars(s, Whitespace), Whitespace)
        negative == stripped # << >> /\ stripped[1] = "-"
        unsigned == IF stripped # << >> /\ stripped[1] \in {"+", "-"}
                    THEN Tail(stripped) ELSE stripped
        prefixed == Len(unsigned) >= 2 /\ unsigned[1] = "0" /\ unsigned[2] \in {"x", "X"}
        afterpfx == IF prefixed THEN SubSeq(unsigned, 3, Len(unsigned)) ELSE unsigned
        digits   == IF prefixed /\ afterpfx # << >> /\ afterpfx[1] = "_"
                    THEN Tail(afterpfx) ELSE afterpfx
    IN  IF WellFormedDigits(digits)
        THEN [ok |-> TRUE,
              val |-> IF negative THEN 0 - HexDigitsValue(digits, 0)
                      ELSE HexDigitsValue(digits, 0)]
        ELSE [ok |-> FALSE, val |-> 0]

(***************************************************************************)
(* Pkt-lines.                                                              *)
(***************************************************************************)
\* The enum constructor PktLineConstants(value), defined for 0..3.
PktLineConstants(value) == [type |-> "PktLineConstants", value |-> value]

FLUSH == PktLineConstants(0)
DELIMITER == PktLineConstants(1)
RESPONSE_END == PktLineConstants(2)
INVALID == PktLineConstants(3)

PktLineData(data) == [type |-> "PktLineData", data |-> data]

\* isinstance(pkt, PktLineData)
isPktLineData(pkt) == pkt.type = "PktLineData"

\* A variant that takes the length prefix for the payload's length.
frame_payload_whole(buf, offset, pkt_length) ==
    SubSeq(buf, offset + 5, IF offset + 4 + pkt_length <= Len(buf)
                            THEN offset + 4 + pkt_length ELSE Len(buf))

\* data[offset + 4:(offset + pkt_length)]
frame_payload(buf, offset, pkt_length) == SubSeq(buf, offset + 5, offset + pkt_length)

\* A variant that keeps an incomplete frame's payload bytes but drops its
\* length prefix.
unparsed_after_prefix(buf, offset) ==
    SubSeq(buf, (IF offset + 5 <= Len(buf) + 1 THEN offset + 5 ELSE Len(buf) + 1),
           Len(buf))

\* data[offset:], the bytes parse_pkt_lines hands back unparsed.
unparsed(buf, offset) == SubSeq(buf, offset + 1, Len(buf))

RECURSIVE parse_from(_, _, _)
\* The loop of parse_pkt_lines from `offset` (0-based) with `pkts` parsed so far.
\* err is set where the source raises (int() or the enum constructor).
parse_from(data, offset, pkts) ==
    LET size == Len(data) IN
    IF size - offset < 4
    THEN [err |-> FALSE, pkts |-> pkts, remainder |-> unparsed(data, offset)]
    ELSE
      LET pkt_length_prefix == SubSeq(data, offset + 1, offset + 4)
          parsed == int16(pkt_length_prefix)
          pkt_length == parsed.val
      IN  IF ~parsed.ok
          THEN [err |-> TRUE, pkts |-> pkts, remainder |-> << >>]
          ELSE IF pkt_length < 4
          THEN IF pkt_length < 0
               THEN [err |-> TRUE, pkts |-> pkts, remainder |-> << >>]  \* not a PktLineConstants value
               ELSE parse_from(data, offset + 4,
                               Append(pkts, PktLineConstants(pkt_length)))
          ELSE IF size - offset < pkt_length
          THEN [err |-> FALSE, pkts |-> pkts, remainder |-> unparsed(data, offset)]
          ELSE parse_from(data, offset + pkt_length,
                          Append(pkts, PktLineData(
                              frame_payload(data, offset, pkt_length))))

parse_pkt_lines(data) == parse_from(data, 0, << >>)

\* f'{n:04x}': at least four lowercase hex digits, zero padded.
RECURSIVE hex_digits(_)
hex_digits(n) ==
    IF n < 16 THEN <<HexLower[n + 1]>>
    ELSE Append(hex_digits(n \div 16), HexLower[(n % 16) + 1])

format_04x(n) ==
    LET ds == hex_digits(n)
    IN  [i \in 1..(IF Len(ds) < 4 THEN 4 - Len(ds) ELSE 0) |-> "0"] \o ds

\* encode_pkt_line of a data payload.
encode_pkt_line(line) == format_04x(Len(line) + 4) \o line

(***************************************************************************)
(* Byte-string constants of the source.                                    *)
(***************************************************************************)
REF_PREFIX == <<"r","e","f","-","p","r","e","f","i","x"," ">>
COMMAND_EQ == <<"c","o","m","m","a","n","d","=">>
LS_REFS == <<"l","s","-","r","e","f","s">>
NEWLINE == <<"\n">>
STAR_COLON == <<"*", ":">>
STAR == <<"*">>

None == "None"

\* A variant that only checks that the header is there.
verify_git_protocol_version_present(git_protocol) ==
    IF git_protocol = None THEN 400 ELSE 0

\* verify_git_protocol_version: the status it raises, 0 when it returns.
verify_git_protocol_version(git_protocol) ==
    IF git_protocol # "version=2" THEN 400 ELSE 0

\* get_git_command(pkts[0]); err where the source raises.
get_git_command(pkt) ==
    IF ~isPktLineData(pkt) THEN [err |-> TRUE, command |-> << >>]
    ELSE IF ~startswith(pkt.data, COMMAND_EQ) THEN [err |-> TRUE, command |-> << >>]
    ELSE [err |-> FALSE,
          command |-> rstrip_chars(removeprefix(pkt.data, COMMAND_EQ), {"\n"})]

\* A variant that leaves the pkt's trailing newline in the prefix.
refspec_unstripped(pkt_data) ==
    LET ref_prefix == removeprefix(pkt_data, REF_PREFIX)
    IN  ref_prefix \o STAR_COLON \o ref_prefix \o STAR

\* The refspec get_refspecs builds from a ref-prefix pkt's payload.
refspec(pkt_data) ==
    LET ref_prefix == rstrip_chars(removeprefix(pkt_data, REF_PREFIX), Whitespace)
    IN  ref_prefix \o STAR_COLON \o ref_prefix \o STAR

RECURSIVE get_refspecs(_)
get_refspecs(pkts) ==
    IF pkts = << >> THEN << >>
    ELSE LET pkt == pkts[1] IN
         IF ~isPktLineData(pkt) THEN get_refspecs(Tail(pkts))
         ELSE IF ~startswith(pkt.data, REF_PREFIX) THEN get_refspecs(Tail(pkts))
         ELSE <<refspec(pkt.data)>> \o get_refspecs(Tail(pkts))

\* A variant that refreshes whenever there are refspecs, whatever the command.
refresh_required_any_command(command, refspecs) ==
    Len(refspecs) > 0

\* The test `command == b'ls-refs'` and `len(refspecs) > 0` that guards update_refs.
refresh_required(command, refspecs) ==
    command = LS_REFS /\ Len(refspecs) > 0

\* gzip framing: the magic bytes 1f 8b open a gzip member; the deflate coding of
\* the content is not modelled.
GZIP_MAGIC == <<"1f", "8b">>
gzip_compress(b) == GZIP_MAGIC \o b
\* gzip.decompress; err where it raises BadGzipFile.
gzip_decompress(raw) ==
    IF startswith(raw, GZIP_MAGIC)
    THEN [err |-> FALSE, data |-> removeprefix(raw, GZIP_MAGIC)]
    ELSE [err |-> TRUE, data |-> << >>]

\* decode_body, given the content-encoding header and the raw body.
decode_body(content_encoding, raw_body) ==
    IF content_encoding # None /\ content_encoding = "gzip"
    THEN gzip_decompress(raw_body)
    ELSE [err |-> FALSE, data |-> raw_body]

\* settings.namespaces: namespace -> upstream URL prefix.
settings_namespaces == [x |-> "git@upstream:"]

get_local_repo(namespace, repo) == <<"var/data", namespace, repo>>

\* get_remote_repo; err where the dict lookup raises KeyError.
get_remote_repo(namespace, repo) ==
    IF namespace \in DOMAIN settings_namespaces
    THEN [err |-> FALSE, url |-> <<settings_namespaces[namespace], repo>>]
    ELSE [err |-> TRUE, url |-> <<"", repo>>]


(***************************************************************************)
(* ls_remote_proxy.py: the v0 advertisement synthesised from the output of *)
(* git ls-remote --symref.  A str is a sequence of one-character strings;  *)
(* the NUL character is written "NUL".                                     *)
(***************************************************************************)
SYMREF_PREFIX == <<"r", "e", "f", ":", " ">>

\* The CGI header lines print_header writes, each followed by CR LF.
HEADER_LINES ==
    << "Expires: Fri, 01 Jan 1980 00:00:00 GMT",
       "Pragma: no-cache",
       "Cache-Control: no-cache, max-age=0, must-revalidate",
       "Content-Type: application/x-git-upload-pack-advertisement",
       "" >>

EXTENSIONS ==
    <<"m", "u", "l", "t", "i", "_", "a", "c", "k", " ", "t", "h", "i", "n",
      "-", "p", "a", "c", "k", " ", "s", "i", "d", "e", "-", "b", "a", "n",
      "d", " ", "s", "i", "d", "e", "-", "b", "a", "n", "d", "-", "6", "4",
      "k", " ", "o", "f", "s", "-", "d", "e", "l", "t", "a", " ", "s", "h",
      "a", "l", "l", "o", "w", " ", "d", "e", "e", "p", "e", "n", "-", "s",
      "i", "n", "c", "e", " ", "d", "e", "e", "p", "e", "n", "-", "n", "o",
      "t", " ", "d", "e", "e", "p", "e", "n", "-", "r", "e", "l", "a", "t",
      "i", "v", "e", " ", "n", "o", "-", "p", "r", "o", "g", "r", "e", "s",
      "s", " ", "i", "n", "c", "l", "u", "d", "e", "-", "t", "a", "g", " ",
      "m", "u", "l", "t", "i", "_", "a", "c", "k", "_", "d", "e", "t", "a",
      "i", "l", "e", "d", " ", "n", "o", "-", "d", "o", "n", "e", " ", "o",
      "b", "j", "e", "c", "t", "-", "f", "o", "r", "m", "a", "t", "=", "s",
      "h", "a", "1", " ", "a", "g", "e", "n", "t", "=", "g", "i", "t", "/",
      "2", ".", "3", "0", ".", "2">>

SERVICE_LINE ==
    <<"#", " ", "s", "e", "r", "v", "i", "c", "e", "=", "g", "i", "t", "-",
      "u", "p", "l", "o", "a", "d", "-", "p", "a", "c", "k", "\n">>

SymRef(target, ref) == [target |-> target, ref |-> ref]
ResolvedRef(objid, ref) == [objid |-> objid, ref |-> ref]

RECURSIVE split(_, _, _)
\* str.split(sep, maxsplit) for a one-character sep.
split(line, sep, maxsplit) ==
    IF maxsplit = 0 \/ ~(\E i \in 1..Len(line) : line[i] = sep) THEN <<line>>
    ELSE LET n == CHOOSE i \in 1..Len(line) :
                     line[i] = sep /\ \A j \in 1..(i - 1) : line[j] # sep
         IN  <<SubSeq(line, 1, n - 1)>>
                \o split(SubSeq(line, n + 1, Len(line)), sep, maxsplit - 1)

RECURSIVE parse_refs_from(_, _, _)
\* The loop of parse_refs over the lines still to read; err where the
\* unpacking `left, ref = ...` raises ValueError.
parse_refs_from(lines, sym_refs, resolved_refs) ==
    IF lines = << >>
    THEN [err |-> FALSE, sym_refs |-> sym_refs, resolved_refs |-> resolved_refs]
    ELSE LET line == rstrip_chars(lines[1], Whitespace)
             parts == split(line, "\t", 2)
         IN  IF Len(parts) # 2
             THEN [err |-> TRUE, sym_refs |-> sym_refs, resolved_refs |-> resolved_refs]
             ELSE LET left == parts[1]
                      ref == parts[2]
                  IN  IF startswith(left, SYMREF_PREFIX)
                      THEN parse_refs_from(Tail(lines),
                               Append(sym_refs,
                                      SymRef(SubSeq(left, Len(SYMREF_PREFIX) + 1, Len(left)),
                                             ref)),
                               resolved_refs)
                      ELSE parse_refs_from(Tail(lines), sym_refs,
                               Append(resolved_refs, ResolvedRef(left, ref)))

parse_refs(f) == parse_refs_from(f, << >>, << >>)

\* f" symref={sym_ref.target}:{sym_ref.ref}"
symref_hint(sym_ref) ==
    <<" ", "s", "y", "m", "r", "e", "f", "=">> \o sym_ref.target \o <<":">> \o sym_ref.ref

RECURSIVE symref_hints(_)
symref_hints(sym_refs) ==
    IF sym_refs = << >> THEN << >>
    ELSE symref_hint(sym_refs[1]) \o symref_hints(Tail(sym_refs))

\* The line run builds for resolved_refs[idx] (idx counted from 0).
advertised_line(idx, resolved_ref, sym_refs) ==
    resolved_ref.objid \o <<" ">> \o resolved_ref.ref
        \o (IF idx = 0 THEN <<"NUL">> \o EXTENSIONS \o symref_hints(sym_refs) ELSE << >>)
        \o <<"\n">>

RECURSIVE advertised_from(_, _, _)
advertised_from(idx, resolved_refs, sym_refs) ==
    IF idx >= Len(resolved_refs) THEN << >>
    ELSE encode_pkt_line(advertised_line(idx, resolved_refs[idx + 1], sym_refs))
            \o advertised_from(idx + 1, resolved_refs, sym_refs)

\* run: what it has written to stdout when it returns or raises.
run(f) ==
    LET parsed == parse_refs(f) IN
    IF parsed.err
    THEN [err |-> TRUE, header |-> HEADER_LINES, body |-> << >>]
    ELSE [err |-> FALSE, header |-> HEADER_LINES,
          body |-> encode_pkt_line(SERVICE_LINE) \o <<"0", "0", "0", "0">>
                     \o advertised_from(0, parsed.resolved_refs, parsed.sym_refs)
                     \o <<"0", "0", "0", "0">>]


(***************************************************************************)
(* Request bodies the clients send (the client's side, not the proxy's).   *)
(* A body is described by the pkt-lines the client framed (first pkt,      *)
(* ref-prefix arguments), bytes appended after the last frame, and whether *)
(* it was gzipped.                                                         *)
(***************************************************************************)
FETCH == <<"f","e","t","c","h">>
BOGUS == <<"b","o","g","u","s">>
REFS_HEADS == <<"r","e","f","s","/","h","e","a","d","s","/">>
REFS_TAGS == <<"r","e","f","s","/","t","a","g","s","/">>

\* The wire form of one pkt-line.
encode_pkt(pkt) ==
    IF isPktLineData(pkt) THEN encode_pkt_line(pkt.data) ELSE format_04x(pkt.value)

RECURSIVE encode_pkts(_)
encode_pkts(pkts) ==
    IF pkts = << >> THEN << >> ELSE encode_pkt(pkts[1]) \o encode_pkts(Tail(pkts))

Script(first, command, prefixes, junk, gz, content_encoding) ==
    [first |-> first, command |-> command, prefixes |-> prefixes, junk |-> junk,
     gz |-> gz, content_encoding |-> content_encoding]

\* The pkt-lines the client framed.
ScriptPkts(s) ==
    LET head == CASE s.first = "command" ->
                       <<PktLineData(COMMAND_EQ \o s.command \o NEWLINE)>>
                  [] s.first = "flush" -> <<FLUSH>>
                  [] s.first = "other" -> <<PktLineData(REF_PREFIX \o REFS_HEADS \o NEWLINE)>>
                  [] s.first = "none" -> << >>
        args == IF s.prefixes = << >> THEN << >>
                ELSE <<DELIMITER>> \o
                     [i \in 1..Len(s.prefixes) |->
                        PktLineData(REF_PREFIX \o s.prefixes[i] \o NEWLINE)]
    IN  head \o args \o (IF s.first = "none" THEN << >> ELSE <<FLUSH>>)

\* The body before transport encoding, and as sent.
ScriptBody(s) == encode_pkts(ScriptPkts(s)) \o s.junk
ScriptRawBody(s) == IF s.gz THEN gzip_compress(ScriptBody(s)) ELSE ScriptBody(s)

PostInputs ==
    << Script("command", LS_REFS, << >>, << >>, FALSE, None),
       Script("command", LS_REFS, <<REFS_HEADS, REFS_HEADS>>, << >>, TRUE, "gzip"),
       Script("command", LS_REFS, <<REFS_HEADS, REFS_TAGS>>, << >>, FALSE, None),
       Script("command", FETCH, << >>, << >>, FALSE, None),
       Script("command", FETCH, <<REFS_HEADS>>, << >>, FALSE, None),
       Script("command", BOGUS, << >>, << >>, FALSE, None),
       Script("flush", << >>, << >>, << >>, FALSE, None),
       Script("other", << >>, << >>, << >>, FALSE, None),
       Script("none", << >>, << >>, << >>, FALSE, None),
       Script("command", FETCH, << >>, <<"0", "0">>, FALSE, None),
       Script("command", LS_REFS, <<REFS_HEADS>>, <<"0", "0", "0", "9", "a">>, FALSE, None),
       Script("command", FETCH, << >>, <<"z", "z", "z", "z">>, FALSE, None),
       Script("command", FETCH, << >>, << >>, TRUE, None),
       Script("command", FETCH, << >>, << >>, FALSE, "gzip") >>


(***************************************************************************)
(* The server: concurrent requests, the git children they spawn, the       *)
(* mirror directories on disk.                                             *)
(***************************************************************************)
Requests == {"r1", "r2"}
Namespaces == {"x", "zz"}
Repo == "y"
LocalPaths == {get_local_repo(ns, Repo) : ns \in Namespaces}

\* What a git upload-pack child does: the bytes it writes to stdout before it
\* closes it, and its exit status.
ChildPlans ==
    { [output |-> << >>, rc |-> 128],
      [output |-> <<"p">>, rc |-> 128],
      [output |-> <<"p", "\n", "q">>, rc |-> 0] }

NoPlan == [output |-> << >>, rc |-> 0]

VARIABLES
    req,      \* req[r]: the request as received (method, path and query, headers, body)
    pc,       \* pc[r]: where the request's task is
    status,   \* status[r]: the HTTP status sent, 0 while none is
    body,     \* body[r]: git_upload_pack's local `body`
    isdir,    \* isdir[r]: the mirror directory as it was when git_init_if_required tested it
    procs,    \* procs[r]: the children the request spawned, in spawn order
    dirs,     \* dirs[path]: the mirror directory: absent, partial or present
    sent,     \* sent[r]: the response body bytes delivered to the client
    buffer,   \* a byte buffer handed to parse_pkt_lines on its own
    outcome,  \* what parse_pkt_lines returned for `buffer`, once it was called
    pending,  \* the bytes of `buffer` a resuming caller has not yet handed over
    resumed,  \* what a resuming caller has got from parse_pkt_lines so far
    ls_remote,     \* the git ls-remote --symref entries on ls_remote_proxy's stdin
    advertisement  \* what ls_remote_proxy's run wrote to stdout, once it ran

server == <<req, pc, status, body, isdir, procs, dirs, sent>>
codec == <<buffer, outcome, pending, resumed>>
cgi == <<ls_remote, advertisement>>
vars == <<req, pc, status, body, isdir, procs, dirs, sent, buffer, outcome,
          pending, resumed, ls_remote, advertisement>>

NotParsed == [done |-> FALSE, err |-> FALSE, pkts |-> << >>, remainder |-> << >>]

\* ls_remote_proxy before run is called.
NotRun == [done |-> FALSE, err |-> FALSE, header |-> << >>, body |-> << >>]

\* A resuming caller before its first call: no pkts, nothing left over; tails
\* lists what each call so far handed back.
NotResumed ==
    [calls |-> 0, err |-> FALSE, pkts |-> << >>, remainder |-> << >>, tails |-> << >>]

NoRequest ==
    [method |-> None, namespace |-> None, repo |-> None, git_protocol |-> None,
     service |-> None, input |-> 0]

Init ==
    /\ req = [r \in Requests |-> NoRequest]
    /\ pc = [r \in Requests |-> "idle"]
    /\ status = [r \in Requests |-> 0]
    /\ body = [r \in Requests |-> << >>]
    /\ isdir = [r \in Requests |-> "unchecked"]
    /\ procs = [r \in Requests |-> << >>]
    /\ dirs = [p \in LocalPaths |-> "absent"]
    /\ sent = [r \in Requests |-> << >>]
    /\ buffer = << >>
    /\ outcome = NotParsed
    /\ pending = << >>
    /\ resumed = NotResumed
    /\ ls_remote = << >>
    /\ advertisement = NotRun

\* A child as asyncio.create_subprocess_exec leaves it: running, its stdin pipe
\* (if it has one) open and empty, its exit status (rc, -1 while it runs) not
\* yet collected by an `await process.wait()` of the proxy.
Child(kind, args, path, has_stdin, plan) ==
    [kind |-> kind, args |-> args, path |-> path,
     stdin |-> << >>, stdin_state |-> IF has_stdin THEN "open" ELSE "none",
     phase |-> "started", rc |-> -1, waited |-> FALSE,
     plan |-> plan, written |-> 0, pipe |-> << >>, eof |-> FALSE]

Last(r) == procs[r][Len(procs[r])]

SetLast(r, child) == [procs EXCEPT ![r][Len(procs[r])] = child]

\* A variant that takes only a complete mirror for a directory.
os_path_isdir_complete(path) == dirs[path] = "present"

\* A variant that also takes a mirror some request is cloning for a directory.
os_path_isdir_or_cloning(path) ==
    \/ dirs[path] # "absent"
    \/ \E q \in Requests : \E i \in 1..Len(procs[q]) :
          /\ procs[q][i].kind = "clone" /\ procs[q][i].path = path
          /\ procs[q][i].phase # "exited"

\* os.path.isdir(local_repo)
os_path_isdir(path) == dirs[path] # "absent"

\* What git upload-pack may do when started on `path`: without a directory it
\* writes nothing to stdout and fails.
UploadPackPlans(path) ==
    IF dirs[path] = "absent" THEN {plan \in ChildPlans : plan.output = << >>}
    ELSE ChildPlans

\* A variant that takes every exit status for success.
nonzero_ignored(return_code) == FALSE

\* The tests `not git_clone_return_code == 0` and `return_code != 0`.
nonzero(return_code) == return_code # 0

\* A variant that terminates a child still running and closes its pipes.
cancel_terminating(child) ==
    IF child.phase = "exited" THEN child
    ELSE [child EXCEPT !.phase = "exited", !.rc = -15, !.eof = TRUE,
                       !.stdin_state = IF @ = "open" THEN "closed" ELSE @]

\* What a handler does to a child it spawned when it is cancelled at an
\* await: nothing, there is no handler for CancelledError and no finally.
cancel(child) == child

\* The awaits of the handlers and of the streaming response, where a
\* cancellation is delivered.
CancellationPoints ==
    {"clone_wait", "decode_body", "update_refs_drain", "update_refs_wait",
     "upload_pack_drain", "stream"}

\* The status of a response to a handler that raised something other than
\* HTTPException.
UnhandledException == 500

\* The request is answered with `st` and its task ends.
Respond(r, st) ==
    /\ status' = [status EXCEPT ![r] = st]
    /\ pc' = [pc EXCEPT ![r] = "done"]

\* A client sends a request.
Arrive(r) ==
    /\ pc[r] = "idle"
    /\ \E method \in {"GET", "POST"}, namespace \in Namespaces,
          git_protocol \in {None, "version=2", "version=1"},
          service \in {None, "git-upload-pack", "git-receive-pack"} :
          /\ method = "POST" => service = None
          /\ req' = [req EXCEPT ![r] =
                       [method |-> method, namespace |-> namespace, repo |-> Repo,
                        git_protocol |-> git_protocol, service |-> service,
                        input |-> 0]]
    /\ pc' = [pc EXCEPT ![r] = "verify"]
    /\ UNCHANGED <<status, body, isdir, procs, dirs, sent>>

\* The application-wide dependency runs before either handler.
VerifyGitProtocolVersion(r) ==
    /\ pc[r] = "verify"
    /\ LET st == verify_git_protocol_version(req[r].git_protocol) IN
         IF st # 0
         THEN Respond(r, st)
         ELSE /\ pc' = [pc EXCEPT ![r] = IF req[r].method = "GET"
                                          THEN "git_info_refs" ELSE "decode_body"]
              /\ UNCHANGED status
    /\ UNCHANGED <<req, body, isdir, procs, dirs, sent>>

\* proxy_to_git("upload-pack", "--http-backend-info-refs", local_repo): the child.
proxy_to_git(service_name, arguments, path, plan) ==
    Child(service_name, arguments, path, FALSE, plan)

\* The clone git_init_if_required spawns.
git_clone(remote_repo, path) ==
    Child("clone", <<"--quiet", "--mirror", "--single-branch">>, path, FALSE, NoPlan)

\* git_info_refs up to its first suspension: the service check, the repository
\* lookups, git_init_if_required's directory test and the spawn that follows it.
GitInfoRefs(r) ==
    /\ pc[r] = "git_info_refs"
    /\ LET local_repo == get_local_repo(req[r].namespace, req[r].repo)
           remote_repo == get_remote_repo(req[r].namespace, req[r].repo)
       IN  IF req[r].service # "git-upload-pack"
           THEN Respond(r, 400) /\ UNCHANGED <<isdir, procs>>
           ELSE IF remote_repo.err
           THEN Respond(r, UnhandledException) /\ UNCHANGED <<isdir, procs>>
           ELSE IF os_path_isdir(local_repo)
           THEN /\ isdir' = [isdir EXCEPT ![r] = dirs[local_repo]]
                /\ \E plan \in UploadPackPlans(local_repo) :
                     procs' = [procs EXCEPT ![r] = Append(@,
                        proxy_to_git("upload-pack", <<"--http-backend-info-refs">>,
                                     local_repo, plan))]
                /\ status' = [status EXCEPT ![r] = 200]
                /\ pc' = [pc EXCEPT ![r] = "stream"]
           ELSE /\ isdir' = [isdir EXCEPT ![r] = dirs[local_repo]]
                /\ procs' = [procs EXCEPT ![r] = Append(@,
                                 git_clone(remote_repo.url, local_repo))]
                /\ pc' = [pc EXCEPT ![r] = "clone_wait"]
                /\ UNCHANGED status
    /\ UNCHANGED <<req, body, dirs, sent>>

\* A git clone child starts work: it creates the target directory, or fails at
\* once (the directory is already there, or upstream cannot be reached).
GitCloneStart(r) ==
    /\ procs[r] # << >>
    /\ Last(r).kind = "clone" /\ Last(r).phase = "started"
    /\ \/ /\ dirs[Last(r).path] = "absent"
          /\ dirs' = [dirs EXCEPT ![Last(r).path] = "partial"]
          /\ procs' = SetLast(r, [Last(r) EXCEPT !.phase = "running"])
       \/ /\ procs' = SetLast(r, [Last(r) EXCEPT !.phase = "exited", !.rc = 128])
          /\ UNCHANGED dirs
    /\ UNCHANGED <<req, pc, status, body, isdir, sent>>

\* A git clone child that created the directory exits: with 0 and a complete
\* mirror, or with an error, either removing the directory again or (killed)
\* leaving what it had written.
GitCloneExit(r) ==
    /\ procs[r] # << >>
    /\ Last(r).kind = "clone" /\ Last(r).phase = "running"
    /\ \E rc \in {0, 128}, left \in {"present", "partial", "absent"} :
         /\ rc = 0 <=> left = "present"
         /\ procs' = SetLast(r, [Last(r) EXCEPT !.phase = "exited", !.rc = rc])
         /\ dirs' = [dirs EXCEPT ![Last(r).path] = left]
    /\ UNCHANGED <<req, pc, status, body, isdir, sent>>

\* git_init_if_required resumes when the clone has exited, and git_info_refs
\* goes on to proxy_to_git.
GitInitReturn(r) ==
    /\ pc[r] = "clone_wait"
    /\ Last(r).phase = "exited"
    /\ IF nonzero(Last(r).rc)
       THEN /\ Respond(r, UnhandledException)
            /\ procs' = SetLast(r, [Last(r) EXCEPT !.waited = TRUE])
       ELSE /\ \E plan \in UploadPackPlans(Last(r).path) :
                 procs' = [procs EXCEPT ![r] =
                    Append(SetLast(r, [Last(r) EXCEPT !.waited = TRUE])[r],
                           proxy_to_git("upload-pack", <<"--http-backend-info-refs">>,
                                        Last(r).path, plan))]
            /\ status' = [status EXCEPT ![r] = 200]
            /\ pc' = [pc EXCEPT ![r] = "stream"]
    /\ UNCHANGED <<req, body, isdir, dirs, sent>>


\* decode_body: the body is read from the connection and decoded.
DecodeBody(r) ==
    /\ pc[r] = "decode_body"
    /\ \E i \in 1..Len(PostInputs) :
         LET decoded == decode_body(PostInputs[i].content_encoding,
                                    ScriptRawBody(PostInputs[i]))
         IN  /\ req' = [req EXCEPT ![r].input = i]
             /\ IF decoded.err
                THEN Respond(r, UnhandledException) /\ UNCHANGED body
                ELSE /\ body' = [body EXCEPT ![r] = decoded.data]
                     /\ pc' = [pc EXCEPT ![r] = "git_upload_pack"]
                     /\ UNCHANGED status
    /\ UNCHANGED <<isdir, procs, dirs, sent>>

\* A variant that clones a mirror that is not there instead of fetching into it.
update_refs_init_if_required(path, refspecs) ==
    IF os_path_isdir(path)
    THEN [Child("fetch", <<"origin", "--quiet", "--no-write-fetch-head",
                           "--no-show-forced-updates", "--stdin">>, path, TRUE, NoPlan)
            EXCEPT !.stdin = join(NEWLINE, refspecs)]
    ELSE Child("clone", <<"--quiet", "--mirror", "--single-branch">>, path, FALSE, NoPlan)

\* The git fetch update_refs spawns, the refspecs written to its stdin.
update_refs(path, refspecs) ==
    [Child("fetch", <<"origin", "--quiet", "--no-write-fetch-head",
                      "--no-show-forced-updates", "--stdin">>, path, TRUE, NoPlan)
        EXCEPT !.stdin = join(NEWLINE, refspecs)]

\* A variant that streams the child's stdout without writing to its stdin.
upload_pack_unwritten(path, data, plan) ==
    Child("upload-pack", <<"--stateless-rpc">>, path, TRUE, plan)

\* The git upload-pack --stateless-rpc git_upload_pack spawns, `data` written
\* to its stdin.
upload_pack(path, data, plan) ==
    [Child("upload-pack", <<"--stateless-rpc">>, path, TRUE, plan)
        EXCEPT !.stdin = data]

\* git_upload_pack from the decoded body to its next suspension: parsing, the
\* remainder test, the command, and the spawn of git fetch or git upload-pack.
GitUploadPack(r) ==
    /\ pc[r] = "git_upload_pack"
    /\ LET local_repo == get_local_repo(req[r].namespace, req[r].repo)
           parsed == parse_pkt_lines(body[r])
           pkts == parsed.pkts
           got == get_git_command(pkts[1])
           command == got.command
           refspecs == get_refspecs(pkts)
       IN  IF parsed.err
           THEN Respond(r, UnhandledException) /\ UNCHANGED procs
           ELSE IF Len(parsed.remainder) > 0
           THEN Respond(r, UnhandledException) /\ UNCHANGED procs
           ELSE IF pkts = << >>
           THEN Respond(r, UnhandledException) /\ UNCHANGED procs
           ELSE IF got.err
           THEN Respond(r, UnhandledException) /\ UNCHANGED procs
           ELSE IF refresh_required(command, refspecs)
           THEN /\ procs' = [procs EXCEPT ![r] = Append(@, update_refs(local_repo, refspecs))]
                /\ pc' = [pc EXCEPT ![r] = "update_refs_drain"]
                /\ UNCHANGED status
           ELSE /\ \E plan \in UploadPackPlans(local_repo) :
                     procs' = [procs EXCEPT ![r] =
                                  Append(@, upload_pack(local_repo, body[r], plan))]
                /\ pc' = [pc EXCEPT ![r] = "upload_pack_drain"]
                /\ UNCHANGED status
    /\ UNCHANGED <<req, body, isdir, dirs, sent>>

\* update_refs closes the fetch child's stdin and waits for the child.
UpdateRefsCloseStdin(r) ==
    /\ pc[r] = "update_refs_drain"
    /\ procs' = SetLast(r, [Last(r) EXCEPT !.stdin_state = "closed"])
    /\ pc' = [pc EXCEPT ![r] = "update_refs_wait"]
    /\ UNCHANGED <<req, status, body, isdir, dirs, sent>>

\* The git fetch child exits: with 0 only once it has read all its refspecs and
\* if there is a repository to fetch into.
GitFetchExit(r) ==
    /\ procs[r] # << >>
    /\ Last(r).kind = "fetch" /\ Last(r).phase = "started"
    /\ \E rc \in {0, 128} :
         /\ rc = 0 => Last(r).stdin_state = "closed" /\ dirs[Last(r).path] # "absent"
         /\ procs' = SetLast(r, [Last(r) EXCEPT !.phase = "exited", !.rc = rc])
    /\ UNCHANGED <<req, pc, status, body, isdir, dirs, sent>>

\* update_refs resumes when the fetch has exited, and git_upload_pack goes on
\* to spawn git upload-pack.
UpdateRefsReturn(r) ==
    /\ pc[r] = "update_refs_wait"
    /\ Last(r).phase = "exited"
    /\ IF nonzero(Last(r).rc)
       THEN /\ Respond(r, UnhandledException)
            /\ procs' = SetLast(r, [Last(r) EXCEPT !.waited = TRUE])
       ELSE /\ \E plan \in UploadPackPlans(Last(r).path) :
                 procs' = [procs EXCEPT ![r] =
                    Append(SetLast(r, [Last(r) EXCEPT !.waited = TRUE])[r],
                           upload_pack(Last(r).path, body[r], plan))]
            /\ pc' = [pc EXCEPT ![r] = "upload_pack_drain"]
            /\ UNCHANGED status
    /\ UNCHANGED <<req, body, isdir, dirs, sent>>

\* git_upload_pack closes the upload-pack child's stdin and returns the
\* streaming response.
UploadPackCloseStdin(r) ==
    /\ pc[r] = "upload_pack_drain"
    /\ procs' = SetLast(r, [Last(r) EXCEPT !.stdin_state = "closed"])
    /\ status' = [status EXCEPT ![r] = 200]
    /\ pc' = [pc EXCEPT ![r] = "stream"]
    /\ UNCHANGED <<req, body, isdir, dirs, sent>>

\* A git upload-pack child writes the next byte of its output to stdout.
UploadPackWrite(r) ==
    /\ procs[r] # << >>
    /\ Last(r).kind = "upload-pack" /\ Last(r).phase = "started"
    /\ Last(r).written < Len(Last(r).plan.output)
    /\ procs' = SetLast(r, [Last(r) EXCEPT
                   !.written = @ + 1,
                   !.pipe = Append(@, Last(r).plan.output[Last(r).written + 1])])
    /\ UNCHANGED <<req, pc, status, body, isdir, dirs, sent>>

\* A git upload-pack child closes stdout and exits.
UploadPackExit(r) ==
    /\ procs[r] # << >>
    /\ Last(r).kind = "upload-pack" /\ Last(r).phase = "started"
    /\ Last(r).written = Len(Last(r).plan.output)
    /\ procs' = SetLast(r, [Last(r) EXCEPT
                   !.phase = "exited", !.rc = Last(r).plan.rc, !.eof = TRUE])
    /\ UNCHANGED <<req, pc, status, body, isdir, dirs, sent>>

\* A variant that drops an unterminated last line.
readline_whole_lines(pipe, eof) ==
    IF \E i \in 1..Len(pipe) : pipe[i] = "\n"
    THEN LET n == CHOOSE i \in 1..Len(pipe) :
                     pipe[i] = "\n" /\ \A j \in 1..(i - 1) : pipe[j] # "\n"
         IN  [ready |-> TRUE, line |-> SubSeq(pipe, 1, n)]
    ELSE [ready |-> eof, line |-> << >>]

\* What iterating the child's stdout StreamReader yields next: a line with its
\* newline, or at end of file what is left; not ready while neither is there.
readline(pipe, eof) ==
    IF \E i \in 1..Len(pipe) : pipe[i] = "\n"
    THEN LET n == CHOOSE i \in 1..Len(pipe) :
                     pipe[i] = "\n" /\ \A j \in 1..(i - 1) : pipe[j] # "\n"
         IN  [ready |-> TRUE, line |-> SubSeq(pipe, 1, n)]
    ELSE [ready |-> eof, line |-> pipe]

\* The streaming response sends the next chunk of the child's stdout.
StreamChunk(r) ==
    /\ pc[r] = "stream"
    /\ LET next == readline(Last(r).pipe, Last(r).eof) IN
         /\ next.ready
         /\ next.line # << >>
         /\ sent' = [sent EXCEPT ![r] = @ \o next.line]
         /\ procs' = SetLast(r, [Last(r) EXCEPT
                        !.pipe = SubSeq(@, Len(next.line) + 1, Len(@))])
    /\ UNCHANGED <<req, pc, status, body, isdir, dirs>>

\* The child's stdout is at end of file: the response body is complete.
StreamEnd(r) ==
    /\ pc[r] = "stream"
    /\ LET next == readline(Last(r).pipe, Last(r).eof) IN
         next.ready /\ next.line = << >>
    /\ pc' = [pc EXCEPT ![r] = "done"]
    /\ UNCHANGED <<req, status, body, isdir, procs, dirs, sent>>

\* The client goes away: the request's task is cancelled at the await it is
\* suspended in, or the streaming response is abandoned.
Cancel(r) ==
    /\ pc[r] \in CancellationPoints
    /\ pc' = [pc EXCEPT ![r] = "cancelled"]
    /\ procs' = [procs EXCEPT ![r] = [i \in 1..Len(@) |-> cancel(@[i])]]
    /\ UNCHANGED <<req, status, body, isdir, dirs, sent>>

Next ==
    /\ UNCHANGED codec
    /\ UNCHANGED cgi
    /\ \E r \in Requests :
        \/ Arrive(r)
        \/ VerifyGitProtocolVersion(r)
        \/ GitInfoRefs(r)
        \/ GitCloneStart(r)
        \/ GitCloneExit(r)
        \/ GitInitReturn(r)
        \/ DecodeBody(r)
        \/ GitUploadPack(r)
        \/ UpdateRefsCloseStdin(r)
        \/ GitFetchExit(r)
        \/ UpdateRefsReturn(r)
        \/ UploadPackCloseStdin(r)
        \/ UploadPackWrite(r)
        \/ UploadPackExit(r)
        \/ StreamChunk(r)
        \/ StreamEnd(r)
        \/ Cancel(r)

Spec == Init /\ [][Next]_vars

\* The steps the git children of request r take by themselves.
ChildStep(r) ==
    /\ UNCHANGED codec
    /\ UNCHANGED cgi
    /\ \/ GitCloneStart(r)
       \/ GitCloneExit(r)
       \/ GitFetchExit(r)
       \/ UploadPackWrite(r)
       \/ UploadPackExit(r)

\* The steps in which the event loop resumes request r's handler at an await
\* whose result is there, or the streaming response sends on.
TaskStep(r) ==
    /\ UNCHANGED codec
    /\ UNCHANGED cgi
    /\ \/ GitInitReturn(r)
       \/ UpdateRefsCloseStdin(r)
       \/ UpdateRefsReturn(r)
       \/ UploadPackCloseStdin(r)
       \/ StreamChunk(r)
       \/ StreamEnd(r)

\* A child that can take a step gets to take it, and the event loop resumes
\* every task that is ready.
FairSpec == Spec /\ \A r \in Requests : WF_vars(ChildStep(r)) /\ WF_vars(TaskStep(r))


(***************************************************************************)
(* parse_pkt_lines on its own: a buffer is assembled from pieces (frames,  *)
(* length prefixes in several spellings, payload bytes) and parsed.        *)
(***************************************************************************)
MaxData == 11

\* The number of calls a resuming caller makes.
MaxCalls == 2

Pieces ==
    { <<"0","0","0","0">>, <<"0","0","0","1">>, <<"0","0","0","3">>,
      <<"0","0","0","5">>, <<"0","0","0","a">>, <<"0","0","0","A">>,
      <<"0","x","0","5">>, <<"z","z","z","z">>,
      <<"x">>, <<"x","y","x","y","x">> }

\* More bytes are added to the buffer.
Receive ==
    /\ ~outcome.done
    /\ \E piece \in Pieces :
         /\ Len(buffer) + Len(piece) <= MaxData
         /\ buffer' = buffer \o piece
         /\ pending' = pending \o piece
    /\ UNCHANGED <<outcome, resumed>>
    /\ UNCHANGED <<server, cgi>>

\* parse_pkt_lines(buffer) is called on the whole buffer.
Parse ==
    /\ ~outcome.done
    /\ LET result == parse_pkt_lines(buffer)
       IN  outcome' = [done |-> TRUE, err |-> result.err, pkts |-> result.pkts,
                      remainder |-> result.remainder]
    /\ UNCHANGED <<buffer, pending, resumed>>
    /\ UNCHANGED <<server, cgi>>

\* The same buffer goes to a resuming caller, which hands parse_pkt_lines what
\* its last call left over followed by the next k bytes, and keeps the pkts it
\* gets.
Resume ==
    /\ outcome.done
    /\ ~resumed.err
    /\ resumed.calls < MaxCalls
    /\ \E k \in 0..Len(pending) :
         LET result == parse_pkt_lines(resumed.remainder \o SubSeq(pending, 1, k))
         IN  /\ resumed' = [calls |-> resumed.calls + 1, err |-> result.err,
                            pkts |-> resumed.pkts \o result.pkts,
                            remainder |-> result.remainder,
                            tails |-> Append(resumed.tails, result.remainder)]
             /\ pending' = SubSeq(pending, k + 1, Len(pending))
    /\ UNCHANGED <<buffer, outcome>>
    /\ UNCHANGED <<server, cgi>>

NextCodec == Receive \/ Parse \/ Resume

SpecCodec == Init /\ [][NextCodec]_vars


(***************************************************************************)
(* ls_remote_proxy.py on its own: git ls-remote --symref output is fed to  *)
(* its stdin entry by entry, then run is called.                           *)
(***************************************************************************)
MaxLines == 3

REFS_HEADS_MAIN == REFS_HEADS \o <<"m", "a", "i", "n">>
REFS_TAGS_V1 == REFS_TAGS \o <<"v", "1">>
HEAD == <<"H", "E", "A", "D">>

\* What git ls-remote --symref reports: that `name` is a symbolic ref pointing
\* to the ref `to`, or that the ref `name` resolves to the object `objid`.
LsRemoteEntries ==
    { [kind |-> "symref", name |-> HEAD, to |-> REFS_HEADS_MAIN, objid |-> << >>],
      [kind |-> "ref", name |-> HEAD, to |-> << >>, objid |-> <<"a", "1">>],
      [kind |-> "ref", name |-> REFS_HEADS_MAIN, to |-> << >>, objid |-> <<"a", "1">>],
      [kind |-> "ref", name |-> REFS_TAGS_V1, to |-> << >>, objid |-> <<"b", "2">>],
      [kind |-> "blank", name |-> << >>, to |-> << >>, objid |-> << >>] }

\* The line git ls-remote --symref prints for an entry.
LsRemoteLine(e) ==
    CASE e.kind = "symref" -> SYMREF_PREFIX \o e.to \o <<"\t">> \o e.name \o <<"\n">>
      [] e.kind = "ref" -> e.objid \o <<"\t">> \o e.name \o <<"\n">>
      [] e.kind = "blank" -> <<"\n">>

\* git ls-remote prints another entry.
LsRemote ==
    /\ ~advertisement.done
    /\ Len(ls_remote) < MaxLines
    /\ \E e \in LsRemoteEntries : ls_remote' = Append(ls_remote, e)
    /\ UNCHANGED advertisement
    /\ UNCHANGED <<server, codec>>

\* ls_remote_proxy's run reads its stdin to the end and writes the advertisement.
Run ==
    /\ ~advertisement.done
    /\ LET out == run([i \in 1..Len(ls_remote) |-> LsRemoteLine(ls_remote[i])])
       IN  advertisement' = [done |-> TRUE, err |-> out.err, header |-> out.header,
                             body |-> out.body]
    /\ UNCHANGED ls_remote
    /\ UNCHANGED <<server, codec>>

NextLsRemote == LsRemote \/ Run

SpecLsRemote == Init /\ [][NextLsRemote]_vars


(***************************************************************************)
(* Properties.                                                             *)
(***************************************************************************)
\* The indices of request r's children of a kind.
ChildrenOf(r, kind) == {i \in 1..Len(procs[r]) : procs[r][i].kind = kind}

\* The body script request r carried (once its body has been read).
ScriptOf(r) == PostInputs[req[r].input]

BodyRead(r) == req[r].method = "POST" /\ req[r].input # 0

\* The client framed the body properly and declared its transport encoding.
WellFormed(s) ==
    /\ s.first = "command"
    /\ s.junk = << >>
    /\ s.gz <=> (s.content_encoding = "gzip")

\* git_upload_pack has got past parsing and command extraction.
Dispatched(r) == pc[r] \in {"update_refs_drain", "update_refs_wait",
                           "upload_pack_drain", "stream", "done"}

RECURSIVE SplitLines(_)
\* The newline-separated lines of a byte string (none for the empty string).
SplitLines(b) ==
    IF b = << >> THEN << >>
    ELSE IF \E i \in 1..Len(b) : b[i] = "\n"
    THEN LET n == CHOOSE i \in 1..Len(b) : b[i] = "\n" /\ \A j \in 1..(i - 1) : b[j] # "\n"
         IN  <<SubSeq(b, 1, n - 1)>> \o SplitLines(SubSeq(b, n + 1, Len(b)))
    ELSE <<b>>

\* The refspec 'P*:P*' of a prefix P.
RefspecOf(prefix) == prefix \o <<"*", ":">> \o prefix \o <<"*">>

Range(f) == {f[i] : i \in DOMAIN f}

----------------------------------------------------------------------------
\* C1: a request to either endpoint whose Git-Protocol header is absent or is
\* not exactly version=2 is answered 400 and never has a child process.
C1_BadProtocolRejected ==
    \A r \in Requests :
        (pc[r] # "idle" /\ req[r].git_protocol # "version=2") =>
            /\ procs[r] = << >>
            /\ pc[r] \in {"verify", "done"}
            /\ status[r] = IF pc[r] = "done" THEN 400 ELSE 0

\* C1 witness: a GET without the header and a POST with version=1 were both
\* answered 400.
C1_Witness ==
    \E r, q \in Requests :
        /\ req[r].method = "GET" /\ req[r].git_protocol = None
        /\ req[q].method = "POST" /\ req[q].git_protocol = "version=1"
        /\ pc[r] = "done" /\ status[r] = 400
        /\ pc[q] = "done" /\ status[q] = 400

----------------------------------------------------------------------------
\* C2 as claimed: an ls-refs POST with no ref-prefix pkts spawns no git fetch;
\* with ref-prefix pkts naming N distinct prefixes it spawns exactly one git
\* fetch whose stdin lists exactly N refspecs, one 'P*:P*' per distinct prefix.
C2_OneRefspecPerDistinctPrefix ==
    \A r \in Requests :
        (BodyRead(r) /\ WellFormed(ScriptOf(r)) /\ ScriptOf(r).command = LS_REFS) =>
            LET prefixes == Range(ScriptOf(r).prefixes)
                fetches == ChildrenOf(r, "fetch")
            IN  IF prefixes = {}
                THEN fetches = {}
                ELSE Dispatched(r) =>
                       /\ fetches = {1}
                       /\ Len(SplitLines(procs[r][1].stdin)) = Cardinality(prefixes)
                       /\ Range(SplitLines(procs[r][1].stdin))
                            = {RefspecOf(prefix) : prefix \in prefixes}

\* C2 amended: an ls-refs POST with no ref-prefix pkts spawns no git fetch;
\* with M ref-prefix pkts it spawns exactly one git fetch whose stdin lists
\* exactly M refspecs, 'P*:P*' for each ref-prefix pkt in pkt order, a
\* repeated prefix being listed as often as it is sent.
C2_OneRefspecPerRefPrefixPkt ==
    \A r \in Requests :
        (BodyRead(r) /\ WellFormed(ScriptOf(r)) /\ ScriptOf(r).command = LS_REFS) =>
            LET prefixes == ScriptOf(r).prefixes
                fetches == ChildrenOf(r, "fetch")
            IN  IF prefixes = << >>
                THEN fetches = {}
                ELSE Dispatched(r) =>
                       /\ fetches = {1}
                       /\ SplitLines(procs[r][1].stdin)
                            = [i \in 1..Len(prefixes) |-> RefspecOf(prefixes[i])]

\* C2 witness: an ls-refs POST that sent refs/heads/ twice got its git fetch,
\* and one without ref-prefix pkts went straight to git upload-pack.
C2_Witness ==
    \E r, q \in Requests :
        /\ BodyRead(r) /\ ScriptOf(r).command = LS_REFS
        /\ ScriptOf(r).prefixes = <<REFS_HEADS, REFS_HEADS>>
        /\ ChildrenOf(r, "fetch") = {1}
        /\ BodyRead(q) /\ ScriptOf(q).command = LS_REFS
        /\ ScriptOf(q).prefixes = << >>
        /\ ChildrenOf(q, "upload-pack") = {1}

----------------------------------------------------------------------------
\* C3 as claimed: a POST whose decoded body leaves a non-empty remainder after
\* pkt-line parsing is answered 400 and spawns neither git fetch nor git
\* upload-pack.
C3_RemainderAnswered400 ==
    \A r \in Requests :
        (/\ BodyRead(r) /\ Dispatched(r)
         /\ ~parse_pkt_lines(body[r]).err
         /\ Len(parse_pkt_lines(body[r]).remainder) > 0) =>
            /\ procs[r] = << >>
            /\ pc[r] = "done" /\ status[r] = 400

----------------------------------------------------------------------------
\* C4 as claimed: a POST whose pkt sequence does not begin with a Data pkt
\* whose payload starts with 'command=' (a control marker first, another Data
\* payload first, or no pkt at all) is answered 400 and spawns nothing.
C4_NoCommandAnswered400 ==
    \A r \in Requests :
        (/\ BodyRead(r) /\ Dispatched(r)
         /\ ScriptOf(r).first \in {"flush", "other", "none"}
         /\ ScriptOf(r).junk = << >>) =>
            /\ procs[r] = << >>
            /\ pc[r] = "done" /\ status[r] = 400

----------------------------------------------------------------------------
\* C5 as claimed: a POST whose command is neither ls-refs nor fetch is
\* answered 400 and git upload-pack is never spawned for it.
C5_UnknownCommandAnswered400 ==
    \A r \in Requests :
        (/\ BodyRead(r) /\ Dispatched(r)
         /\ WellFormed(ScriptOf(r))
         /\ ScriptOf(r).command \notin {LS_REFS, FETCH}) =>
            /\ ChildrenOf(r, "upload-pack") = {}
            /\ pc[r] = "done" /\ status[r] = 400


----------------------------------------------------------------------------
\* C6: a POST whose command is fetch never spawns a git fetch, whatever pkts
\* follow the command line, and spawns exactly one git upload-pack
\* --stateless-rpc whose stdin receives the decoded request body unchanged.
C6_FetchNeverRefreshes ==
    \A r \in Requests :
        (BodyRead(r) /\ ScriptOf(r).first = "command" /\ ScriptOf(r).command = FETCH) =>
            /\ ChildrenOf(r, "fetch") = {}
            /\ ChildrenOf(r, "clone") = {}
            /\ (WellFormed(ScriptOf(r)) /\ Dispatched(r)) =>
                 /\ Len(procs[r]) = 1
                 /\ procs[r][1].kind = "upload-pack"
                 /\ procs[r][1].args = <<"--stateless-rpc">>
                 /\ procs[r][1].stdin = ScriptBody(ScriptOf(r))
                 /\ pc[r] = "done" => status[r] = 200

\* C6 witness: a fetch POST that carried a ref-prefix pkt after its command
\* was answered from its git upload-pack.
C6_Witness ==
    \E r \in Requests :
        /\ BodyRead(r) /\ ScriptOf(r).command = FETCH
        /\ ScriptOf(r).prefixes = <<REFS_HEADS>> /\ ScriptOf(r).junk = << >>
        /\ pc[r] = "done" /\ status[r] = 200
        /\ ChildrenOf(r, "upload-pack") = {1}

----------------------------------------------------------------------------
\* C7: a GET info/refs with service=git-upload-pack and a valid header spawns
\* no git clone when git_init_if_required finds the mirror directory there;
\* when it finds none it spawns exactly one git clone, and one git
\* upload-pack --http-backend-info-refs after it, and that only once the
\* clone has exited with status 0.
C7_CloneThenInfoRefs ==
    \A r \in Requests :
        (/\ req[r].method = "GET" /\ req[r].service = "git-upload-pack"
         /\ req[r].git_protocol = "version=2") =>
            LET clones == ChildrenOf(r, "clone")
                packs == ChildrenOf(r, "upload-pack")
            IN  /\ ChildrenOf(r, "fetch") = {}
                /\ \A i \in packs : procs[r][i].args = <<"--http-backend-info-refs">>
                /\ isdir[r] = "unchecked" => procs[r] = << >>
                /\ isdir[r] \in {"partial", "present"} =>
                     clones = {} /\ packs = {1}
                /\ isdir[r] = "absent" =>
                     /\ clones = {1}
                     /\ packs \subseteq {2}
                     /\ packs = {2} => procs[r][1].phase = "exited" /\ procs[r][1].rc = 0
                     /\ (pc[r] \notin {"clone_wait", "cancelled"} /\ procs[r][1].rc = 0)
                          => packs = {2}

\* C7 witness: one GET found no mirror, cloned it and then advertised from it;
\* another found the mirror there and advertised without a clone.
C7_Witness ==
    \E r, q \in Requests :
        /\ req[r].method = "GET" /\ isdir[r] = "absent"
        /\ Len(procs[r]) = 2
        /\ procs[r][1].kind = "clone" /\ procs[r][1].rc = 0
        /\ procs[r][2].kind = "upload-pack" /\ pc[r] = "done"
        /\ req[q].method = "GET" /\ isdir[q] = "present"
        /\ Len(procs[q]) = 1 /\ procs[q][1].kind = "upload-pack" /\ pc[q] = "done"

----------------------------------------------------------------------------
\* C8 as claimed: a request (GET info/refs or POST git-upload-pack, otherwise
\* acceptable) that names a namespace absent from the configured mapping is
\* answered 500 and spawns no subprocess.
C8_UnknownNamespaceAnswered500 ==
    \A r \in Requests :
        (/\ pc[r] \notin {"idle", "verify"}
         /\ req[r].git_protocol = "version=2"
         /\ req[r].method = "GET" => req[r].service = "git-upload-pack"
         /\ req[r].namespace \notin DOMAIN settings_namespaces) =>
            /\ procs[r] = << >>
            /\ status[r] \in {0, 500}
            /\ pc[r] = "done" => status[r] = 500

----------------------------------------------------------------------------
----------------------------------------------------------------------------
IsLowerHex4(prefix) ==
    /\ Len(prefix) = 4
    /\ \A i \in 1..4 : \E k \in 1..16 : HexLower[k] = prefix[i]

RECURSIVE CanonicalFrom(_, _)
\* Every length prefix of a frame the parser consumes from `offset` on is
\* spelled as four lowercase hex digits.
CanonicalFrom(b, offset) ==
    IF Len(b) - offset < 4 THEN TRUE
    ELSE LET prefix == SubSeq(b, offset + 1, offset + 4)
             length == int16(prefix)
         IN  IF ~length.ok \/ length.val < 0 THEN TRUE
             ELSE IF length.val < 4
             THEN /\ IsLowerHex4(prefix)
                  /\ CanonicalFrom(b, offset + 4)
             ELSE IF Len(b) - offset < length.val THEN TRUE
             ELSE /\ IsLowerHex4(prefix)
                  /\ CanonicalFrom(b, offset + length.val)

\* C10 as claimed: whenever parse_pkt_lines returns (pkts, tail) for a buffer,
\* re-encoding the pkts (a control pkt as the four digits of its value, a Data
\* pkt as four lowercase hex digits of len + 4 and its payload; Reserved, which
\* the claim does not list, as 0003) and appending tail reproduces the buffer.
C10_RoundTripAnyBuffer ==
    (outcome.done /\ ~outcome.err) =>
        encode_pkts(outcome.pkts) \o outcome.remainder = buffer

\* C10 amended: whenever parse_pkt_lines returns (pkts, tail) for a buffer in
\* which every length prefix of a consumed frame is spelled as four lowercase
\* hex digits, re-encoding the pkts (Reserved as 0003) and appending tail
\* reproduces the buffer.
C10_RoundTripCanonical ==
    (outcome.done /\ ~outcome.err /\ CanonicalFrom(buffer, 0)) =>
        encode_pkts(outcome.pkts) \o outcome.remainder = buffer

\* C10 witness: a canonical buffer was parsed into a Data pkt with a payload,
\* a control pkt and a non-empty tail.
C10_Witness ==
    /\ outcome.done /\ ~outcome.err /\ CanonicalFrom(buffer, 0)
    /\ \E i, j \in 1..Len(outcome.pkts) :
         /\ isPktLineData(outcome.pkts[i]) /\ outcome.pkts[i].data # << >>
         /\ ~isPktLineData(outcome.pkts[j])
    /\ outcome.remainder # << >>

----------------------------------------------------------------------------
\* C11: parse_pkt_lines is resumable.  A caller that parses the first part of
\* a buffer, then parses what that call handed back followed by the rest, gets
\* the pkts of parsing the buffer in one go (in order) and the same remainder;
\* it gets an error only if parsing in one go raises, and if parsing in one go
\* raises it cannot get through the whole buffer.
C11_Resumable ==
    outcome.done =>
        /\ resumed.err => outcome.err
        /\ (resumed.calls >= 1 /\ ~resumed.err /\ pending = << >>) =>
              /\ ~outcome.err
              /\ resumed.pkts = outcome.pkts
              /\ resumed.remainder = outcome.remainder

\* C11 witness: the first call was handed a buffer that ended inside a frame
\* (after its length prefix), handed the partial frame back, and the second
\* call completed it; both ways of parsing gave the same Data pkt.
C11_Witness ==
    /\ outcome.done /\ ~outcome.err
    /\ resumed.calls = 2 /\ ~resumed.err /\ pending = << >>
    /\ Len(resumed.tails[1]) >= 5
    /\ resumed.remainder = << >>
    /\ resumed.pkts = outcome.pkts
    /\ \E i \in 1..Len(resumed.pkts) :
         isPktLineData(resumed.pkts[i]) /\ Len(resumed.pkts[i].data) >= 2

----------------------------------------------------------------------------
\* The entries of a kind among those fed to ls_remote_proxy, in order.
EntriesOf(kind) == SelectSeq(ls_remote, LAMBDA e : e.kind = kind)

RECURSIVE HintsAsClaimed(_)
\* ' symref=<source>:<target>' for each symbolic ref: source the symbolic
\* name, target the ref it points to.
HintsAsClaimed(symrefs) ==
    IF symrefs = << >> THEN << >>
    ELSE <<" ", "s", "y", "m", "r", "e", "f", "=">>
            \o symrefs[1].name \o <<":">> \o symrefs[1].to
            \o HintsAsClaimed(Tail(symrefs))

RECURSIVE PktsAsClaimed(_, _)
\* The pkts of the resolved refs from the i-th on: the first with NUL, the
\* capability string and the hints, the others bare.
PktsAsClaimed(i, refs) ==
    IF i > Len(refs) THEN << >>
    ELSE encode_pkt_line(refs[i].objid \o <<" ">> \o refs[i].name
                           \o (IF i = 1
                               THEN <<"NUL">> \o EXTENSIONS
                                      \o HintsAsClaimed(EntriesOf("symref"))
                               ELSE << >>)
                           \o <<"\n">>)
            \o PktsAsClaimed(i + 1, refs)

\* C12 as claimed: in the advertisement run writes, NUL, the capability string
\* and the symref hints are appended to the first resolved ref's pkt only, and
\* each symbolic ref is rendered ' symref=<source>:<target>', source being the
\* symbolic name and target the ref it points to.
C12_SymrefSourceColonTarget ==
    (advertisement.done /\ ~advertisement.err) =>
        advertisement.body =
            encode_pkt_line(SERVICE_LINE) \o <<"0", "0", "0", "0">>
                \o PktsAsClaimed(1, EntriesOf("ref"))
                \o <<"0", "0", "0", "0">>


----------------------------------------------------------------------------
\* C13 as claimed: when a request is cancelled while its git upload-pack child
\* is alive, the proxy closes the child's stdin if it is still open and
\* terminates the child: in no state is a request cancelled while a git
\* upload-pack child of it runs on, or has its stdin left open.
C13_CancelTerminatesChild ==
    \A r \in Requests :
        pc[r] = "cancelled" =>
            \A i \in ChildrenOf(r, "upload-pack") :
                /\ procs[r][i].phase = "exited"
                /\ procs[r][i].stdin_state # "open"


----------------------------------------------------------------------------
\* C14: within each POST, whatever the other requests do meanwhile: a child
\* exists only once the body has been read, decoded and parsed in full (no
\* error, no remainder); a git upload-pack child exists only after the git
\* fetch before it (if any) has exited with status 0 and been waited for; and
\* a status line or a response byte is sent only once the git upload-pack
\* child has been spawned, has the body on its stdin and has its stdin closed.
C14_PostStepsOrdered ==
    \A r \in Requests :
        req[r].method = "POST" =>
            LET parsed == parse_pkt_lines(body[r]) IN
            /\ procs[r] # << >> =>
                 /\ BodyRead(r)
                 /\ pc[r] \notin {"idle", "verify", "decode_body", "git_upload_pack"}
                 /\ body[r] = ScriptBody(ScriptOf(r))
                 /\ ~parsed.err /\ parsed.remainder = << >> /\ parsed.pkts # << >>
            /\ \A i \in ChildrenOf(r, "upload-pack") :
                 /\ i = Len(procs[r])
                 /\ \A j \in 1..(i - 1) :
                      /\ procs[r][j].kind = "fetch"
                      /\ procs[r][j].phase = "exited" /\ procs[r][j].rc = 0
                      /\ procs[r][j].waited
                      /\ procs[r][j].stdin_state = "closed"
            /\ (sent[r] # << >> \/ status[r] = 200) =>
                 /\ procs[r] # << >>
                 /\ Last(r).kind = "upload-pack"
                 /\ Last(r).stdin = body[r]
                 /\ Last(r).stdin_state = "closed"

\* C14 witness: an ls-refs POST has refreshed the mirror, spawned git
\* upload-pack and streamed some of its output while a GET for the same
\* repository was streaming its advertisement.
C14_Witness ==
    \E r, q \in Requests :
        /\ req[r].method = "POST" /\ Len(procs[r]) = 2
        /\ procs[r][1].kind = "fetch" /\ procs[r][1].rc = 0
        /\ procs[r][2].kind = "upload-pack"
        /\ sent[r] # << >> /\ pc[r] = "stream"
        /\ req[q].method = "GET" /\ pc[q] = "stream" /\ sent[q] # << >>


----------------------------------------------------------------------------
\* C15: a request whose git clone (GET info/refs) or git fetch (ls-refs POST)
\* has exited with a non-zero status never has a git upload-pack child and
\* sends no status but 500; unless it was cancelled meanwhile, it is answered
\* 500 as soon as its wait for the child returns.
C15_FailedChildAnswered500 ==
    \A r \in Requests :
        \A i \in ChildrenOf(r, "clone") \cup ChildrenOf(r, "fetch") :
            (procs[r][i].phase = "exited" /\ procs[r][i].rc # 0) =>
                /\ i = Len(procs[r])
                /\ ChildrenOf(r, "upload-pack") = {}
                /\ sent[r] = << >>
                /\ pc[r] \in {"clone_wait", "update_refs_drain", "update_refs_wait",
                              "done", "cancelled"}
                /\ status[r] = IF pc[r] = "done" THEN 500 ELSE 0
                /\ procs[r][i].waited <=> pc[r] = "done"

\* C15 witness: a GET whose clone failed and an ls-refs POST whose fetch
\* failed have both been answered 500.
C15_Witness ==
    \E r, q \in Requests :
        /\ req[r].method = "GET" /\ Len(procs[r]) = 1
        /\ procs[r][1].kind = "clone" /\ procs[r][1].rc = 128
        /\ pc[r] = "done" /\ status[r] = 500
        /\ req[q].method = "POST" /\ Len(procs[q]) = 1
        /\ procs[q][1].kind = "fetch" /\ procs[q][1].rc = 128
        /\ pc[q] = "done" /\ status[q] = 500


----------------------------------------------------------------------------
\* A child that has not exited.
Live(child) == child.phase # "exited"

\* C16: there is no single-flight gate on mirror initialisation.  Every GET
\* whose directory test found no mirror spawned a git clone of its own into
\* the mirror's path, whatever clones of other requests were running: two
\* requests that both found the same mirror missing have a clone each, both
\* targeting that one path.
C16_NoSingleFlight ==
    \A r, q \in Requests :
        (/\ r # q
         /\ isdir[r] = "absent" /\ isdir[q] = "absent"
         /\ req[r].namespace = req[q].namespace) =>
            /\ ChildrenOf(r, "clone") = {1} /\ ChildrenOf(q, "clone") = {1}
            /\ procs[r][1].path = get_local_repo(req[r].namespace, req[r].repo)
            /\ procs[q][1].path = procs[r][1].path

\* C16 witness: two clone children of two GET requests are alive at once and
\* target the same mirror path.
C16_Witness ==
    \E r, q \in Requests :
        /\ r # q
        /\ req[r].method = "GET" /\ req[q].method = "GET"
        /\ Len(procs[r]) = 1 /\ Len(procs[q]) = 1
        /\ procs[r][1].kind = "clone" /\ procs[q][1].kind = "clone"
        /\ Live(procs[r][1]) /\ Live(procs[q][1])
        /\ procs[r][1].path = procs[q][1].path


----------------------------------------------------------------------------
\* C17: a request cancelled while it waits for its git clone leaves the clone
\* alone: the step that cancels it changes neither the child nor the mirror
\* directories, and the clone of a cancelled request runs on until it exits
\* by itself (with status 0 or with git's own error status).
C17_CancelledCloneRunsOn ==
    /\ [][\A r \in Requests :
            (pc[r] = "clone_wait" /\ pc'[r] = "cancelled") =>
                (procs'[r] = procs[r] /\ dirs' = dirs)]_vars
    /\ \A r \in Requests :
         (pc[r] = "cancelled" /\ Len(procs[r]) = 1
            /\ procs[r][1].kind = "clone" /\ Live(procs[r][1]))
         ~> (pc[r] = "cancelled" /\ Len(procs[r]) = 1
               /\ procs[r][1].phase = "exited" /\ procs[r][1].rc \in {0, 128})

\* C17 witness: a GET was cancelled while its clone was running, and the
\* clone has since completed the mirror.
C17_Witness ==
    \E r \in Requests :
        /\ pc[r] = "cancelled" /\ isdir[r] = "absent"
        /\ Len(procs[r]) = 1 /\ procs[r][1].kind = "clone"
        /\ procs[r][1].phase = "exited" /\ procs[r][1].rc = 0
        /\ dirs[procs[r][1].path] = "present"


----------------------------------------------------------------------------
\* A streaming child of request r: the child whose stdout the response
\* streams, git upload-pack --http-backend-info-refs or --stateless-rpc.
Streaming(r) ==
    /\ procs[r] # << >>
    /\ Last(r).kind = "upload-pack"
    /\ status[r] = 200

\* C18 as claimed: for every streaming response, once the child's stdout has
\* reached end of file the proxy goes on to wait for the child and so
\* observes its exit status.
C18_StreamingChildReaped ==
    \A r \in Requests :
        (Streaming(r) /\ Last(r).eof) ~> (Streaming(r) /\ Last(r).waited)


----------------------------------------------------------------------------
\* A clone child that has created the mirror directory `path` and is still
\* at work in it.
Cloning(path) ==
    \E q \in Requests : \E i \in 1..Len(procs[q]) :
        /\ procs[q][i].kind = "clone" /\ procs[q][i].path = path
        /\ procs[q][i].phase = "running"

\* C19: a partial mirror directory that a failed clone has left stays as it
\* is, no step removes or completes it; and every GET info/refs whose
\* directory test found a partial mirror skipped the clone and spawned git
\* upload-pack --http-backend-info-refs on that directory at once.
C19_PartialMirrorKept ==
    /\ [][\A path \in LocalPaths :
            (dirs[path] = "partial" /\ ~Cloning(path)) =>
                (dirs'[path] = "partial" /\ ~Cloning(path)')]_vars
    /\ [](\A r \in Requests :
            isdir[r] = "partial" =>
                /\ req[r].method = "GET"
                /\ ChildrenOf(r, "clone") = {} /\ ChildrenOf(r, "fetch") = {}
                /\ Len(procs[r]) = 1
                /\ procs[r][1].kind = "upload-pack"
                /\ procs[r][1].args = <<"--http-backend-info-refs">>
                /\ procs[r][1].path = get_local_repo(req[r].namespace, req[r].repo)
                /\ status[r] = 200)

\* C19 witness: a clone has failed and left a partial mirror, and a GET that
\* came after it has been answered from the partial directory, which is
\* still there.
C19_Witness ==
    \E r, q \in Requests :
        /\ Len(procs[q]) = 1 /\ procs[q][1].kind = "clone"
        /\ procs[q][1].phase = "exited" /\ procs[q][1].rc = 128
        /\ dirs[procs[q][1].path] = "partial"
        /\ isdir[r] = "partial" /\ pc[r] = "done" /\ status[r] = 200
        /\ Len(procs[r]) = 1 /\ procs[r][1].path = procs[q][1].path


----------------------------------------------------------------------------
\* C20: a POST git-upload-pack never initialises a mirror.  It never runs
\* git_init_if_required's directory test and never has a git clone child;
\* once it has dispatched a well-formed body it has spawned git fetch or git
\* upload-pack on the mirror's path, whether or not there is a directory.
C20_PostNeverClones ==
    \A r \in Requests :
        req[r].method = "POST" =>
            /\ ChildrenOf(r, "clone") = {}
            /\ isdir[r] = "unchecked"
            /\ \A i \in 1..Len(procs[r]) :
                 /\ procs[r][i].kind \in {"fetch", "upload-pack"}
                 /\ procs[r][i].path = get_local_repo(req[r].namespace, req[r].repo)
            /\ (BodyRead(r) /\ WellFormed(ScriptOf(r)) /\ Dispatched(r)) =>
                 /\ procs[r] # << >>
                 /\ procs[r][1].kind =
                      IF ScriptOf(r).command = LS_REFS /\ ScriptOf(r).prefixes # << >>
                      THEN "fetch" ELSE "upload-pack"

\* C20 witness: with no mirror directory on disk, one POST has spawned git
\* fetch and another git upload-pack on the missing directory.
C20_Witness ==
    \E r, q \in Requests :
        /\ req[r].method = "POST" /\ req[q].method = "POST"
        /\ req[r].namespace = req[q].namespace
        /\ dirs[get_local_repo(req[r].namespace, req[r].repo)] = "absent"
        /\ Len(procs[r]) = 1 /\ procs[r][1].kind = "fetch"
        /\ Len(procs[q]) = 1 /\ procs[q][1].kind = "upload-pack"
        /\ pc[q] = "done" /\ status[q] = 200


=============================================================================
